---- MODULE Spec2Model ----
(***************************************************************************)
(* scripts/lib/setup_venv.py: the virtualenv cache.  A provisioning run    *)
(* (setup_virtualenv) builds the environment <cache>/<sha1sum>/venv of a   *)
(* requirements file, cloning the best earlier environment of the cache    *)
(* when one is usable (try_to_copy_venv) and creating a fresh one          *)
(* otherwise, writes its package_index and setup-venv.log, runs pip, and   *)
(* writes success-stamp.                                                   *)
(*                                                                         *)
(* The filesystem is the shared state.  A run is a process whose position  *)
(* in the code is pc[p]; each action is one file operation or one external *)
(* command of the run, in the order the code performs them.                *)
(***************************************************************************)
EXTENDS Integers, Sequences, FiniteSets, TLC

\* Cache entries <cache>/<sha1sum>: the number stands for the position of the
\* path <cache>/<sha1sum>/venv in the string order of the paths.
NumSha == 3
\* Canonical package names: the number stands for the position of the name
\* in the string order of the names.
NumPkgs == 1
\* Processes that can run setup_virtualenv.
NumProcs == 2
\* Provisioning runs started in one behaviour.
MaxRuns == 2
\* create_log_entry calls on one log in one behaviour (SpecLog).
MaxAppends == 3
\* Characters of a requirements file (SpecText).
MaxText == 4

Sha1sums == 1..NumSha
Packages == 1..NumPkgs
Procs == 1..NumProcs

\* source_venv_path = None, and parent = "" in create_log_entry
NoPath == 0
\* the empty string as a line of package_index
EmptyLine == 0
\* an entry of a requirements file with more than one '#egg='
BadEntry == -1

\* the requirements files: the entries of a file stand for the names they
\* clean to; a file with the bad entry holds nothing else
Requirements == (SUBSET Packages) \cup {{BadEntry}}

VARIABLES
    root_exists,    \* os.path.exists(VENV_CACHE_PATH)
    listing,        \* os.listdir(VENV_CACHE_PATH), as a set
    fs,             \* fs[s]: the tree at <cache>/<s>/venv
    req_of,         \* the package names of the requirements file hashing to s
    runs,           \* runs started so far
    pc,             \* pc[p]: where run p is in the code
    venv_path,      \* cached_venv_path / venv_path of run p
    new_packages,   \* new_packages of run p (do_setup_virtualenv)
    todo,           \* the entries os.listdir returned that the loop has not seen
    curr_venv_path, \* curr_venv_path of run p, NoPath outside the loop body
    overlaps,       \* overlaps of run p (try_to_copy_venv)
    source,         \* source_venv_path and copied_packages of run p
    ops,            \* the steps of do_setup_virtualenv run p has performed
    results,        \* the outcomes of install_venv_deps in run p, in order
    appended,       \* the blocks create_log_entry has written (SpecLog)
    requirements,   \* the text of a requirements file (SpecText)
    names,          \* what get_package_names returned for it
    index_file,     \* the text of the package_index written from names
    read_back,      \* what get_venv_packages read from index_file
    names_again     \* what get_package_names returned for the names, one a line

fsvars == <<root_exists, listing, fs>>
locals == <<pc, venv_path, new_packages, todo, curr_venv_path, overlaps, source,
           ops, results>>
textvars == <<requirements, names, index_file, read_back, names_again>>
vars == <<root_exists, listing, fs, req_of, runs, pc, venv_path, new_packages,
          todo, curr_venv_path, overlaps, source, ops, results, appended, textvars>>

----------------------------------------------------------------------------
\* Files and trees

NoFile == [present |-> FALSE, lines |-> <<>>]

File(text) == [present |-> TRUE, lines |-> text]

\* no directory at <cache>/<s>/venv.  installed: pip has installed the
\* requirements of that path in the tree.
NoEnv == [dir |-> FALSE, index |-> NoFile, log |-> NoFile, stamp |-> FALSE,
          installed |-> FALSE]

\* the directory as mkdir -p and virtualenv leave it
EmptyEnv == [dir |-> TRUE, index |-> NoFile, log |-> NoFile, stamp |-> FALSE,
             installed |-> FALSE]

RECURSIVE SortedSeq(_)
\* sorted(S) of a set of names
SortedSeq(S) ==
    IF S = {} THEN <<>>
    ELSE LET m == CHOOSE x \in S : \A y \in S : x <= y
         IN  <<m>> \o SortedSeq(S \ {m})

Range(s) == {s[i] : i \in DOMAIN s}

----------------------------------------------------------------------------
\* package_index

\* os.path.exists(get_index_filename(venv_path))
get_index_filename(env) == env.index

\* the requirements file of a run, as the list get_package_names returns
get_package_names(R) == SortedSeq(R)

\* len(split_package) != 2 for an entry of the file
HasDuplicateEgg(R) == BadEntry \in R

\* '\n'.join(packages) followed by '\n', as the lines of the file
IndexText(packages) ==
    IF packages = <<>> THEN <<EmptyLine>> ELSE packages

\* {p.strip() for p in reader.read().split('\n') if p.strip()}
get_venv_packages(env) ==
    {l \in Range(get_index_filename(env).lines) : l # EmptyLine}

----------------------------------------------------------------------------
\* try_to_copy_venv: the choice of the environment to copy

\* SkipCandidate without the test for package_index
SkipCandidate_OwnPathOnly(candidate_path, own_path, env) ==
    candidate_path = own_path

\* curr_venv_path == venv_path or not os.path.exists(get_index_filename(...))
SkipCandidate(candidate_path, own_path, env) ==
    \/ candidate_path = own_path
    \/ ~get_index_filename(env).present

\* OnlyWanted with the difference taken the other way round
OnlyWanted_Reversed(old_packages, wanted) == wanted \ old_packages = {}

\* not (old_packages - new_packages)
OnlyWanted(old_packages, wanted) == old_packages \ wanted = {}

\* (len(overlap), curr_venv_path, overlap)
OverlapTuple(candidate_path, old_packages, wanted) ==
    [size    |-> Cardinality(wanted \cap old_packages),
     path    |-> candidate_path,
     overlap |-> wanted \cap old_packages]

\* a < b on the tuples of overlaps: by size, then by path, then by set (the
\* order of Python sets is proper inclusion)
TupleLess(a, b) ==
    \/ a.size < b.size
    \/ a.size = b.size /\ a.path < b.path
    \/ a.size = b.size /\ a.path = b.path
         /\ a.overlap # b.overlap /\ a.overlap \subseteq b.overlap

RECURSIVE InsertSorted(_, _)
InsertSorted(x, s) ==
    IF s = <<>> THEN <<x>>
    ELSE IF TupleLess(x, Head(s)) THEN <<x>> \o s
    ELSE <<Head(s)>> \o InsertSorted(x, Tail(s))

RECURSIVE SortFrom(_, _)
SortFrom(s, acc) ==
    IF s = <<>> THEN acc ELSE SortFrom(Tail(s), InsertSorted(Head(s), acc))

\* sorted left out: overlaps stays in the order of os.listdir
sorted_Unsorted(s) == s

\* sorted(overlaps)
sorted(s) == SortFrom(s, <<>>)

\* _, source_venv_path, copied_packages = overlaps[-1]
LastOf(s) == [path |-> s[Len(s)].path, copied |-> s[Len(s)].overlap]

NoSource == [path |-> NoPath, copied |-> {}]

----------------------------------------------------------------------------
\* setup-venv.log

PathLine(path)     == [kind |-> "path", arg |-> path]
CopiedFrom(parent) == [kind |-> "copied_from", arg |-> parent]
Bullet(package)    == [kind |-> "bullet", arg |-> package]
NewPackages        == [kind |-> "new_packages", arg |-> 0]
BlankLine          == [kind |-> "blank", arg |-> 0]

\* "\n".join('- {}'.format(p) for p in sorted(S)) followed by "\n", as lines
BulletLines(S) ==
    IF S = {} THEN <<BlankLine>>
    ELSE [i \in 1..Cardinality(S) |-> Bullet(SortedSeq(S)[i])]

\* what one call of create_log_entry writes
LogEntryText(path, parent, copied_packages, added) ==
    <<PathLine(path)>>
    \o (IF copied_packages # {}
        THEN <<CopiedFrom(parent)>> \o BulletLines(copied_packages)
        ELSE <<>>)
    \o <<NewPackages>> \o BulletLines(added) \o <<BlankLine>>

\* create_log_entry with the log opened 'w'
create_log_entry_Truncating(env, path, parent, copied_packages, added) ==
    [env EXCEPT !.log = File(LogEntryText(path, parent, copied_packages, added))]

\* open(target_log, 'a') and the writes
create_log_entry(env, path, parent, copied_packages, added) ==
    [env EXCEPT !.log =
        File(env.log.lines \o LogEntryText(path, parent, copied_packages, added))]

\* if os.path.exists(source_log): shutil.copyfile(source_log, target_log)
copy_parent_log(source_env, target_env) ==
    IF source_env.log.present
    THEN [target_env EXCEPT !.log = source_env.log]
    ELSE target_env

----------------------------------------------------------------------------
\* A provisioning run

Goto(p, label) == pc' = [pc EXCEPT ![p] = label]

Did(p, step) == ops' = [ops EXCEPT ![p] = @ \cup {step}]

Env(p) == fs[venv_path[p]]

SetEnv(p, env) == fs' = [fs EXCEPT ![venv_path[p]] = env]

\* the requirements file whose hash is s lists the names R
IsRequirementsOf(s, R) == req_of[s] \subseteq {R}

\* setup_virtualenv, lines 291-299: hash the requirements file
Start(p, s, R) ==
    /\ pc[p] = "idle"
    /\ runs < MaxRuns
    /\ IsRequirementsOf(s, R)
    /\ runs' = runs + 1
    /\ req_of' = [req_of EXCEPT ![s] = {R}]
    /\ venv_path' = [venv_path EXCEPT ![p] = s]
    /\ Goto(p, "check_stamp")
    /\ UNCHANGED <<fsvars, new_packages, todo, curr_venv_path, overlaps, source, ops,
                   results, appended, textvars>>

\* the test for success-stamp left out
NeedsSetup_Always(env) == TRUE

\* if not os.path.exists(success_stamp)
NeedsSetup(env) == ~env.stamp

\* setup_virtualenv, line 300
CheckStamp(p) ==
    /\ pc[p] = "check_stamp"
    /\ IF NeedsSetup(Env(p)) THEN Goto(p, "get_names") ELSE Goto(p, "done")
    /\ UNCHANGED <<fsvars, req_of, runs, venv_path, new_packages, todo, curr_venv_path,
                   overlaps, source, ops, results, appended, textvars>>

\* the entry with two '#egg=' passed over
OnDuplicateEgg_Skip == "rm_rf"

\* raise Exception("Unexpected duplicate #egg in package ..."): nothing up
\* to the caller of setup_virtualenv catches it
OnDuplicateEgg == "aborted"

\* do_setup_virtualenv, line 321
GetNames(p) ==
    /\ pc[p] = "get_names"
    /\ \E R \in req_of[venv_path[p]] :
          IF HasDuplicateEgg(R)
          THEN /\ Goto(p, OnDuplicateEgg)
               /\ UNCHANGED new_packages
          ELSE /\ new_packages' =
                     [new_packages EXCEPT ![p] = Range(get_package_names(R))]
               /\ Goto(p, "rm_rf")
    /\ UNCHANGED <<fsvars, req_of, runs, venv_path, todo, curr_venv_path, overlaps,
                   source, ops, results, appended, textvars>>

\* do_setup_virtualenv, line 323: rm -rf venv_path
RemoveVenv(p) ==
    /\ pc[p] = "rm_rf"
    /\ SetEnv(p, NoEnv)
    /\ Did(p, "rm_rf")
    /\ Goto(p, "copy_start")
    /\ UNCHANGED <<root_exists, listing, req_of, runs, venv_path, new_packages, todo,
                   curr_venv_path, overlaps, source, results, appended, textvars>>

\* try_to_copy_venv, lines 182-189: no cache, or list it
CopyStart(p) ==
    /\ pc[p] = "copy_start"
    /\ Did(p, "select")
    /\ IF ~root_exists
       THEN /\ Goto(p, "mkdir")
            /\ UNCHANGED <<todo, overlaps>>
       ELSE /\ todo' = [todo EXCEPT ![p] = listing]
            /\ overlaps' = [overlaps EXCEPT ![p] = <<>>]
            /\ Goto(p, "loop")
    /\ UNCHANGED <<fsvars, req_of, runs, venv_path, new_packages, curr_venv_path, source,
                   results, appended, textvars>>

\* try_to_copy_venv, lines 189-193: the next entry, in whatever order
\* os.listdir gave them, skipped or read
NextCandidate(p) ==
    /\ pc[p] = "loop"
    /\ IF todo[p] = {}
       THEN /\ Goto(p, "select")
            /\ UNCHANGED <<todo, curr_venv_path>>
       ELSE \E sha1sum \in todo[p] :
               IF SkipCandidate(sha1sum, venv_path[p], fs[sha1sum])
               THEN /\ todo' = [todo EXCEPT ![p] = @ \ {sha1sum}]
                    /\ UNCHANGED <<pc, curr_venv_path>>
               ELSE /\ todo' = [todo EXCEPT ![p] = @ \ {sha1sum}]
                    /\ curr_venv_path' = [curr_venv_path EXCEPT ![p] = sha1sum]
                    /\ Goto(p, "read_index")
    /\ UNCHANGED <<fsvars, req_of, runs, venv_path, new_packages, overlaps, source,
                   ops, results, appended, textvars>>

\* try_to_copy_venv, lines 195-200; open() of a missing file raises
ReadCandidate(p) ==
    /\ pc[p] = "read_index"
    /\ LET old_packages == get_venv_packages(fs[curr_venv_path[p]])
       IN  IF ~get_index_filename(fs[curr_venv_path[p]]).present
           THEN /\ Goto(p, "aborted")
                /\ UNCHANGED overlaps
           ELSE /\ overlaps' =
                     [overlaps EXCEPT ![p] =
                        IF OnlyWanted(old_packages, new_packages[p])
                        THEN Append(@, OverlapTuple(curr_venv_path[p], old_packages,
                                                    new_packages[p]))
                        ELSE @]
                /\ Goto(p, "loop")
    /\ curr_venv_path' = [curr_venv_path EXCEPT ![p] = NoPath]
    /\ UNCHANGED <<fsvars, req_of, runs, venv_path, new_packages, todo, source, ops,
                   results, appended, textvars>>

\* try_to_copy_venv, lines 202-207 and 241
Select(p) ==
    /\ pc[p] = "select"
    /\ IF overlaps[p] # <<>>
       THEN /\ overlaps' = [overlaps EXCEPT ![p] = sorted(@)]
            /\ source' = [source EXCEPT ![p] = LastOf(sorted(overlaps[p]))]
            /\ Goto(p, "clone")
       ELSE /\ Goto(p, "mkdir")
            /\ UNCHANGED <<overlaps, source>>
    /\ UNCHANGED <<fsvars, req_of, runs, venv_path, new_packages, todo, curr_venv_path,
                   ops, results, appended, textvars>>

\* what virtualenv-clone leaves at venv_path: the tree of the source,
\* success-stamp included (lines 223-229), with the packages of the source
\* and not yet those of the run
CloneOf(source_env) == [source_env EXCEPT !.installed = FALSE]

\* try_to_copy_venv, lines 209-216: virtualenv-clone succeeds
CloneOk(p) ==
    /\ pc[p] = "clone"
    /\ fs[source[p].path].dir
    /\ ~Env(p).dir
    /\ SetEnv(p, CloneOf(fs[source[p].path]))
    /\ listing' = listing \cup {venv_path[p]}
    /\ Did(p, "clone")
    /\ Goto(p, "rm_stamp")
    /\ UNCHANGED <<root_exists, req_of, runs, venv_path, new_packages, todo,
                   curr_venv_path, overlaps, source, results, appended, textvars>>

\* the CalledProcessError of virtualenv-clone not caught
OnCloneError_Raise == "aborted"

\* except subprocess.CalledProcessError: return False, and the caller makes
\* a new virtualenv
OnCloneError == "mkdir"

\* try_to_copy_venv, lines 217-221: virtualenv-clone is missing or exits
\* non-zero.  The failed command leaves nothing at venv_path.
CloneFail(p) ==
    /\ pc[p] = "clone"
    /\ Did(p, "clone_failed")
    /\ Goto(p, OnCloneError)
    /\ UNCHANGED <<fsvars, req_of, runs, venv_path, new_packages, todo, curr_venv_path,
                   overlaps, source, results, appended, textvars>>

\* the rm -f of the copied success-stamp left out
RemoveStamp_Kept(env) == env

\* rm -f success_stamp_path
RemoveStamp(env) == [env EXCEPT !.stamp = FALSE]

\* try_to_copy_venv, lines 230-234
RemoveCopiedStamp(p) ==
    /\ pc[p] = "rm_stamp"
    /\ SetEnv(p, RemoveStamp(Env(p)))
    /\ Goto(p, "copy_log")
    /\ UNCHANGED <<root_exists, listing, req_of, runs, venv_path, new_packages, todo,
                   curr_venv_path, overlaps, source, ops, results, appended, textvars>>

\* try_to_copy_venv, lines 235-236; copyfile into a missing directory raises
CopyParentLog(p) ==
    /\ pc[p] = "copy_log"
    /\ IF Env(p).dir \/ ~fs[source[p].path].log.present
       THEN /\ SetEnv(p, copy_parent_log(fs[source[p].path], Env(p)))
            /\ Goto(p, "log_clone")
       ELSE /\ Goto(p, "aborted")
            /\ UNCHANGED fs
    /\ UNCHANGED <<root_exists, listing, req_of, runs, venv_path, new_packages, todo,
                   curr_venv_path, overlaps, source, ops, results, appended, textvars>>

\* try_to_copy_venv, lines 237-239
LogClone(p) ==
    /\ pc[p] = "log_clone"
    /\ IF Env(p).dir
       THEN /\ SetEnv(p, create_log_entry(Env(p), venv_path[p], source[p].path,
                                          source[p].copied,
                                          new_packages[p] \ source[p].copied))
            /\ Did(p, "log")
            /\ Goto(p, "index_open")
       ELSE /\ Goto(p, "aborted")
            /\ UNCHANGED <<fs, ops>>
    /\ UNCHANGED <<root_exists, listing, req_of, runs, venv_path, new_packages, todo,
                   curr_venv_path, overlaps, source, results, appended, textvars>>

\* do_setup_virtualenv, lines 326-329: mkdir -p, virtualenv, chown
CreateVenv(p) ==
    /\ pc[p] = "mkdir"
    /\ root_exists' = TRUE
    /\ listing' = listing \cup {venv_path[p]}
    /\ SetEnv(p, IF Env(p).dir THEN Env(p) ELSE EmptyEnv)
    /\ source' = [source EXCEPT ![p] = NoSource]
    /\ Did(p, "mkdir")
    /\ Goto(p, "log_fresh")
    /\ UNCHANGED <<req_of, runs, venv_path, new_packages, todo, curr_venv_path,
                   overlaps, results, appended, textvars>>

\* do_setup_virtualenv, line 330
LogFresh(p) ==
    /\ pc[p] = "log_fresh"
    /\ IF Env(p).dir
       THEN /\ SetEnv(p, create_log_entry(Env(p), venv_path[p], NoPath, {},
                                          new_packages[p]))
            /\ Did(p, "log")
            /\ Goto(p, "index_open")
       ELSE /\ Goto(p, "aborted")
            /\ UNCHANGED <<fs, ops>>
    /\ UNCHANGED <<root_exists, listing, req_of, runs, venv_path, new_packages, todo,
                   curr_venv_path, overlaps, source, results, appended, textvars>>

\* package_index opened 'a': a copied index is kept
OpenIndex_Append(env) ==
    [env EXCEPT !.index = File(env.index.lines)]

\* open(index_filename, 'w')
OpenIndex(env) == [env EXCEPT !.index = File(<<>>)]

\* writer.write('\n'.join(packages)); writer.write('\n'): the text follows
\* what the opened file holds
WriteIndex(env, packages) ==
    [env EXCEPT !.index = File(env.index.lines \o IndexText(packages))]

\* create_requirements_index_file, lines 154-156
IndexOpen(p) ==
    /\ pc[p] = "index_open"
    /\ IF Env(p).dir
       THEN /\ SetEnv(p, OpenIndex(Env(p)))
            /\ Did(p, "index")
            /\ Goto(p, "index_write")
       ELSE /\ Goto(p, "aborted")
            /\ UNCHANGED <<fs, ops>>
    /\ UNCHANGED <<root_exists, listing, req_of, runs, venv_path, new_packages, todo,
                   curr_venv_path, overlaps, source, results, appended, textvars>>

\* create_requirements_index_file, lines 157-160: the writes reach the file
\* the handle was opened on
IndexWrite(p) ==
    /\ pc[p] = "index_write"
    /\ \E R \in req_of[venv_path[p]] :
          SetEnv(p, IF Env(p).index.present
                    THEN WriteIndex(Env(p), get_package_names(R))
                    ELSE Env(p))
    /\ Goto(p, "install1")
    /\ UNCHANGED <<root_exists, listing, req_of, runs, venv_path, new_packages, todo,
                   curr_venv_path, overlaps, source, ops, results, appended, textvars>>

\* install_venv_deps: the two pip install commands, run by the pip of the
\* tree at venv_path
Installed(p, outcome, label) ==
    /\ outcome = "ok" => Env(p).dir
    /\ results' = [results EXCEPT ![p] = Append(@, outcome)]
    /\ SetEnv(p, IF outcome = "ok" THEN [Env(p) EXCEPT !.installed = TRUE] ELSE Env(p))
    /\ Did(p, "install")
    /\ Goto(p, label)
    /\ UNCHANGED <<root_exists, listing, req_of, runs, venv_path, new_packages, todo,
                   curr_venv_path, overlaps, source, appended, textvars>>

\* do_setup_virtualenv, lines 341-342 and 348
InstallOk(p) == pc[p] = "install1" /\ Installed(p, "ok", "write_stamp")

\* do_setup_virtualenv, lines 343-345
InstallFail(p) == pc[p] = "install1" /\ Installed(p, "fail", "install2")

\* do_setup_virtualenv, lines 346 and 348
RetryOk(p) == pc[p] = "install2" /\ Installed(p, "ok", "write_stamp")

\* the install tried again after every failure
RetryFail_Again(p) == pc[p] = "install2" /\ Installed(p, "fail", "install2")

\* do_setup_virtualenv, line 346: CalledProcessError leaves the function
RetryFail(p) == pc[p] = "install2" /\ Installed(p, "fail", "aborted")

\* setup_virtualenv, lines 302-303
WriteStamp(p) ==
    /\ pc[p] = "write_stamp"
    /\ IF Env(p).dir
       THEN /\ SetEnv(p, [Env(p) EXCEPT !.stamp = TRUE])
            /\ Goto(p, "done")
       ELSE /\ Goto(p, "aborted")
            /\ UNCHANGED fs
    /\ UNCHANGED <<root_exists, listing, req_of, runs, venv_path, new_packages, todo,
                   curr_venv_path, overlaps, source, ops, results, appended, textvars>>

\* the process ends: setup_virtualenv has returned or raised
Exit(p) ==
    /\ pc[p] \in {"done", "aborted"}
    /\ pc' = [pc EXCEPT ![p] = "idle"]
    /\ venv_path' = [venv_path EXCEPT ![p] = NoPath]
    /\ new_packages' = [new_packages EXCEPT ![p] = {}]
    /\ todo' = [todo EXCEPT ![p] = {}]
    /\ curr_venv_path' = [curr_venv_path EXCEPT ![p] = NoPath]
    /\ overlaps' = [overlaps EXCEPT ![p] = <<>>]
    /\ source' = [source EXCEPT ![p] = NoSource]
    /\ ops' = [ops EXCEPT ![p] = {}]
    /\ results' = [results EXCEPT ![p] = <<>>]
    /\ UNCHANGED <<fsvars, req_of, runs, appended, textvars>>

----------------------------------------------------------------------------
\* The text of a requirements file and of package_index
\*
\* A string is the sequence of its pieces.  A piece is one character, except
\* that the characters of git+https:// (in lower and in upper case) and those
\* of #egg are kept together as one piece each: no operator, no blank and no
\* end of line lies inside them.

Pieces == {"git+https://", "GIT+HTTPS://", "#egg", "=", "<", "a", "A", " ", "\n"}

\* what str.strip() removes
Whitespace == {" ", "\n"}

\* "git+https://"
GitPrefix == <<"git+https://">>

\* '#egg='
EggMark == <<"#egg", "=">>

\* operators = ['~=', '==', '!=', '<', '>']
operators == << <<"~", "=">>, <<"=", "=">>, <<"!", "=">>, <<"<">>, <<">">> >>

\* the place of a piece in the order of strings: that of its first character
CodeOf(piece) ==
    CASE piece = "\n" -> 10
      [] piece = " " -> 32
      [] piece = "!" -> 33
      [] piece = "#egg" -> 35
      [] piece = "<" -> 60
      [] piece = "=" -> 61
      [] piece = ">" -> 62
      [] piece = "A" -> 65
      [] piece = "GIT+HTTPS://" -> 71
      [] piece = "a" -> 97
      [] piece = "git+https://" -> 103
      [] piece = "~" -> 126

\* str.lower(), piece by piece
LowerOf(piece) ==
    CASE piece = "A" -> "a"
      [] piece = "GIT+HTTPS://" -> "git+https://"
      [] OTHER -> piece

lower(string) == [i \in DOMAIN string |-> LowerOf(string[i])]

\* str.startswith(prefix)
startswith(string, prefix) ==
    /\ Len(string) >= Len(prefix)
    /\ SubSeq(string, 1, Len(prefix)) = prefix

\* where sub first occurs in string, 0 if nowhere
find(string, sub) ==
    LET places == {i \in 1..(Len(string) - Len(sub) + 1) :
                      SubSeq(string, i, i + Len(sub) - 1) = sub}
    IN  IF places = {} THEN 0 ELSE CHOOSE i \in places : \A j \in places : i <= j

\* sub in string
contains(string, sub) == find(string, sub) # 0

RECURSIVE split(_, _)
\* str.split(sep)
split(string, sep) ==
    IF ~contains(string, sep) THEN <<string>>
    ELSE <<SubSeq(string, 1, find(string, sep) - 1)>>
         \o split(SubSeq(string, find(string, sep) + Len(sep), Len(string)), sep)

\* str.strip()
strip(string) ==
    LET kept == {i \in DOMAIN string : string[i] \notin Whitespace}
    IN  IF kept = {} THEN <<>>
        ELSE SubSeq(string,
                    CHOOSE i \in kept : \A j \in kept : i <= j,
                    CHOOSE i \in kept : \A j \in kept : j <= i)

RECURSIVE join(_, _)
\* sep.join(strings)
join(sep, strings) ==
    IF strings = <<>> THEN <<>>
    ELSE IF Len(strings) = 1 THEN Head(strings)
    ELSE Head(strings) \o sep \o join(sep, Tail(strings))

RECURSIVE StringLess(_, _)
\* a < b on strings
StringLess(a, b) ==
    IF b = <<>> THEN FALSE
    ELSE IF a = <<>> THEN TRUE
    ELSE IF Head(a) # Head(b) THEN CodeOf(Head(a)) < CodeOf(Head(b))
    ELSE StringLess(Tail(a), Tail(b))

RECURSIVE InsertString(_, _)
InsertString(x, strings) ==
    IF strings = <<>> THEN <<x>>
    ELSE IF StringLess(x, Head(strings)) THEN <<x>> \o strings
    ELSE <<Head(strings)>> \o InsertString(x, Tail(strings))

RECURSIVE SortStrings(_, _)
\* sorted(cleaned)
SortStrings(strings, acc) ==
    IF strings = <<>> THEN acc
    ELSE SortStrings(Tail(strings), InsertString(Head(strings), acc))

\* the entries of a requirements file: one a line
expand_reqs(text) == split(text, <<"\n">>)

\* package.startswith("git+https://") and '#egg=' in package
IsGitEgg(package) == startswith(package, GitPrefix) /\ contains(package, EggMark)

\* len(split_package) != 2: raise Exception("Unexpected duplicate #egg ...")
DuplicateEgg(package) == IsGitEgg(package) /\ Len(split(package, EggMark)) # 2

RECURSIVE CutOperators(_, _)
\* for operator in operators: if operator in package:
\*     package = package.split(operator)[0]
CutOperators(package, i) ==
    IF i > Len(operators) THEN package
    ELSE CutOperators(IF contains(package, operators[i])
                      THEN split(package, operators[i])[1]
                      ELSE package,
                      i + 1)

\* one entry, up to package.strip()
CleanPackage(package) ==
    strip(CutOperators(IF IsGitEgg(package)
                       THEN split(package, EggMark)[2]
                       ELSE package,
                       1))

RECURSIVE cleaned(_)
\* the list the loop of get_package_names builds
cleaned(packages) ==
    IF packages = <<>> THEN <<>>
    ELSE (IF CleanPackage(Head(packages)) # <<>>
          THEN <<lower(CleanPackage(Head(packages)))>>
          ELSE <<>>)
         \o cleaned(Tail(packages))

NotCalled == [state |-> "none", list |-> <<>>]

\* get_package_names on the entries of a file: the sorted names, or the
\* exception of line 133
PackageNames(packages) ==
    IF \E i \in DOMAIN packages : DuplicateEgg(packages[i])
    THEN [state |-> "raised", list |-> <<>>]
    ELSE [state |-> "returned", list |-> SortStrings(cleaned(packages), <<>>)]

\* the names written one after the other, with nothing between them
IndexChars_Unseparated(packages) == join(<<>>, packages) \o <<"\n">>

\* writer.write('\n'.join(packages)); writer.write('\n')
IndexChars(packages) == join(<<"\n">>, packages) \o <<"\n">>

\* {p.strip() for p in reader.read().split('\n') if p.strip()}
PackagesRead(text) ==
    {strip(line) : line \in Range(split(text, <<"\n">>))} \ {<<>>}

NotRead == [state |-> "none", set |-> {}]

NoText ==
    /\ requirements = <<>>
    /\ names = NotCalled
    /\ index_file = NoFile
    /\ read_back = NotRead
    /\ names_again = NotCalled

----------------------------------------------------------------------------
\* Spec: provisioning runs one after the other, from an empty machine

InitLocals ==
    /\ pc = [p \in Procs |-> "idle"]
    /\ venv_path = [p \in Procs |-> NoPath]
    /\ new_packages = [p \in Procs |-> {}]
    /\ todo = [p \in Procs |-> {}]
    /\ curr_venv_path = [p \in Procs |-> NoPath]
    /\ overlaps = [p \in Procs |-> <<>>]
    /\ source = [p \in Procs |-> NoSource]
    /\ ops = [p \in Procs |-> {}]
    /\ results = [p \in Procs |-> <<>>]

Init ==
    /\ root_exists = FALSE
    /\ listing = {}
    /\ fs = [s \in Sha1sums |-> NoEnv]
    /\ req_of = [s \in Sha1sums |-> {}]
    /\ runs = 0
    /\ InitLocals
    /\ appended = <<>>
    /\ NoText

Step(p) ==
    \/ CheckStamp(p)
    \/ GetNames(p)
    \/ RemoveVenv(p)
    \/ CopyStart(p)
    \/ NextCandidate(p)
    \/ ReadCandidate(p)
    \/ Select(p)
    \/ CloneOk(p)
    \/ CloneFail(p)
    \/ RemoveCopiedStamp(p)
    \/ CopyParentLog(p)
    \/ LogClone(p)
    \/ CreateVenv(p)
    \/ LogFresh(p)
    \/ IndexOpen(p)
    \/ IndexWrite(p)
    \/ InstallOk(p)
    \/ InstallFail(p)
    \/ RetryOk(p)
    \/ RetryFail(p)
    \/ WriteStamp(p)
    \/ Exit(p)

\* one process at a time: the runs of Spec are those of process 1
Next ==
    \/ \E s \in Sha1sums, R \in Requirements : Start(1, s, R)
    \/ Step(1)

Spec == Init /\ [][Next]_vars

\* SpecFair: a run that has started goes on: every step of it is a file
\* operation or a command that returns, and the process takes its next step
SpecFair == Init /\ [][Next]_vars /\ WF_vars(Step(1))

----------------------------------------------------------------------------
\* SpecConc: the processes run setup_virtualenv at the same time on one cache;
\* their file operations and commands interleave

\* the tree a run for the requirements R leaves at path s when it has made a
\* new virtualenv: finished, or given up after pip failed twice
LeftBy(s, R, finished) ==
    [dir |-> TRUE,
     index |-> File(IndexText(get_package_names(R))),
     log |-> File(LogEntryText(s, NoPath, {}, Range(get_package_names(R)))),
     stamp |-> finished,
     installed |-> finished]

\* the cache is empty, or holds the environment one earlier run has left
InitConc ==
    /\ root_exists \in BOOLEAN
    /\ listing \in {{}} \cup {{s} : s \in Sha1sums}
    /\ root_exists <=> listing # {}
    /\ req_of \in [Sha1sums -> {{}} \cup {{R} : R \in SUBSET Packages}]
    /\ \A s \in Sha1sums : req_of[s] # {} <=> s \in listing
    /\ fs \in [Sha1sums -> {NoEnv} \cup {LeftBy(s, R, finished) :
                                s \in Sha1sums, R \in SUBSET Packages,
                                finished \in BOOLEAN}]
    /\ \A s \in Sha1sums :
          IF s \in listing
          THEN \E R \in req_of[s], finished \in BOOLEAN : fs[s] = LeftBy(s, R, finished)
          ELSE fs[s] = NoEnv
    /\ runs = 0
    /\ InitLocals
    /\ appended = <<>>
    /\ NoText

NextConc ==
    \E p \in Procs :
        \/ \E s \in Sha1sums, R \in SUBSET Packages : Start(p, s, R)
        \/ Step(p)

SpecConc == InitConc /\ [][NextConc]_vars

----------------------------------------------------------------------------
\* SpecSel: try_to_copy_venv's choice, on every cache

\* a tree whose package_index lists the names S
IndexedEnv(S) == [EmptyEnv EXCEPT !.index = File(IndexText(SortedSeq(S)))]

\* what the cache can hold at <cache>/<s>/venv: nothing, a directory without
\* package_index, or one with a package_index
CacheEntries == {NoEnv, EmptyEnv} \cup {IndexedEnv(S) : S \in SUBSET Packages}

InitSel ==
    /\ fs \in [Sha1sums -> CacheEntries]
    /\ listing = {s \in Sha1sums : fs[s].dir}
    /\ root_exists \in BOOLEAN
    /\ root_exists \/ listing = {}
    /\ req_of = [s \in Sha1sums |-> {}]
    /\ runs = 0
    /\ pc = [p \in Procs |-> IF p = 1 THEN "copy_start" ELSE "idle"]
    /\ venv_path \in [Procs -> Sha1sums \cup {NoPath}]
    /\ \A p \in Procs : venv_path[p] = NoPath <=> p # 1
    /\ new_packages \in [Procs -> SUBSET Packages]
    /\ \A p \in Procs : p # 1 => new_packages[p] = {}
    /\ todo = [p \in Procs |-> {}]
    /\ curr_venv_path = [p \in Procs |-> NoPath]
    /\ overlaps = [p \in Procs |-> <<>>]
    /\ source = [p \in Procs |-> NoSource]
    /\ ops = [p \in Procs |-> {}]
    /\ results = [p \in Procs |-> <<>>]
    /\ appended = <<>>
    /\ NoText

NextSel ==
    \/ CopyStart(1)
    \/ NextCandidate(1)
    \/ ReadCandidate(1)
    \/ Select(1)

SpecSel == InitSel /\ [][NextSel]_vars

----------------------------------------------------------------------------
\* SpecLog: create_log_entry, called again and again on one log

\* the arguments the two callers pass: no parent and nothing copied (line
\* 330), or a parent, what was copied from it and the rest (lines 237-238)
LogCall(own_path, parent, copied_packages, added) ==
    /\ parent # own_path
    /\ parent = NoPath => copied_packages = {}
    /\ copied_packages \cap added = {}

InitLog ==
    /\ root_exists = TRUE
    /\ venv_path \in [Procs -> Sha1sums \cup {NoPath}]
    /\ \A p \in Procs : venv_path[p] = NoPath <=> p # 1
    /\ listing = {venv_path[1]}
    /\ fs = [s \in Sha1sums |-> IF s = venv_path[1] THEN EmptyEnv ELSE NoEnv]
    /\ req_of = [s \in Sha1sums |-> {}]
    /\ runs = 0
    /\ pc = [p \in Procs |-> "idle"]
    /\ new_packages = [p \in Procs |-> {}]
    /\ todo = [p \in Procs |-> {}]
    /\ curr_venv_path = [p \in Procs |-> NoPath]
    /\ overlaps = [p \in Procs |-> <<>>]
    /\ source = [p \in Procs |-> NoSource]
    /\ ops = [p \in Procs |-> {}]
    /\ results = [p \in Procs |-> <<>>]
    /\ appended = <<>>
    /\ NoText

\* one call of create_log_entry on the log of venv_path[p]
AppendEntry(p, parent, copied_packages, added) ==
    /\ Len(appended) < MaxAppends
    /\ LogCall(venv_path[p], parent, copied_packages, added)
    /\ SetEnv(p, create_log_entry(Env(p), venv_path[p], parent, copied_packages, added))
    /\ appended' = Append(appended,
                          LogEntryText(venv_path[p], parent, copied_packages, added))
    /\ UNCHANGED <<root_exists, listing, req_of, runs, locals, textvars>>

NextLog ==
    \E parent \in Sha1sums \cup {NoPath}, copied_packages, added \in SUBSET Packages :
        AppendEntry(1, parent, copied_packages, added)

SpecLog == InitLog /\ [][NextLog]_vars

----------------------------------------------------------------------------
\* SpecText: get_package_names, create_requirements_index_file and
\* get_venv_packages on the characters of the files

runvars == <<fsvars, req_of, runs, locals, appended>>

InitText ==
    /\ root_exists = FALSE
    /\ listing = {}
    /\ fs = [s \in Sha1sums |-> NoEnv]
    /\ req_of = [s \in Sha1sums |-> {}]
    /\ runs = 0
    /\ InitLocals
    /\ appended = <<>>
    /\ requirements \in UNION {[1..n -> Pieces] : n \in 0..MaxText}
    /\ names = NotCalled
    /\ index_file = NoFile
    /\ read_back = NotRead
    /\ names_again = NotCalled

\* get_package_names(requirements_file)
Canonicalize ==
    /\ names.state = "none"
    /\ names' = PackageNames(expand_reqs(requirements))
    /\ UNCHANGED <<runvars, requirements, index_file, read_back, names_again>>

\* create_requirements_index_file, lines 156-158
WriteIndexFile ==
    /\ names.state = "returned"
    /\ ~index_file.present
    /\ index_file' = File(IndexChars(names.list))
    /\ UNCHANGED <<runvars, requirements, names, read_back, names_again>>

\* get_venv_packages
ReadIndexFile ==
    /\ index_file.present
    /\ read_back.state = "none"
    /\ read_back' = [state |-> "returned", set |-> PackagesRead(index_file.lines)]
    /\ UNCHANGED <<runvars, requirements, names, index_file, names_again>>

\* get_package_names on the file that lists the names, one a line
Recanonicalize ==
    /\ names.state = "returned"
    /\ names_again.state = "none"
    /\ names_again' = PackageNames(expand_reqs(IndexChars(names.list)))
    /\ UNCHANGED <<runvars, requirements, names, index_file, read_back>>

NextText ==
    \/ Canonicalize
    \/ WriteIndexFile
    \/ ReadIndexFile
    \/ Recanonicalize

SpecText == InitText /\ [][NextText]_vars

----------------------------------------------------------------------------
\* What the cache offers a run, read off the filesystem

\* the entries the loop of try_to_copy_venv can take packages from
Candidates(p) ==
    {s \in listing : root_exists /\ s # venv_path[p] /\ fs[s].index.present}

\* those holding no package outside the requirements of run p
Eligible(p) ==
    {s \in Candidates(p) : get_venv_packages(fs[s]) \subseteq new_packages[p]}

OverlapSize(p, s) == Cardinality(get_venv_packages(fs[s]) \cap new_packages[p])

PathsOf(tuples) == {tuples[i].path : i \in DOMAIN tuples}

\* try_to_copy_venv has made its choice
Chosen(p) == pc[p] = "clone"

\* the loop over the cache is over
Scanned(p) == pc[p] \in {"select", "clone"}

\* C1: the environments the loop keeps are exactly the candidates whose
\* package set is a subset of the requirement set R, and the one chosen as
\* the source holds no package outside R.
C1_ChosenIsSubset ==
    \A p \in Procs :
        /\ Scanned(p) => PathsOf(overlaps[p]) = Eligible(p)
        /\ Chosen(p) =>
              get_venv_packages(fs[source[p].path]) \subseteq new_packages[p]

\* C1: a source was chosen although the cache held a candidate with a
\* package outside R.
C1_Witness ==
    /\ Chosen(1)
    /\ Candidates(1) \ Eligible(1) # {}

\* C2: when the choice is made, the source is the eligible candidate of
\* greatest overlap and, among those of that overlap, of greatest path, with
\* its overlap as the copied packages, whatever order os.listdir gave the
\* entries in; nothing is chosen exactly when no candidate is eligible.
C2_BestCandidate ==
    \A p \in Procs :
        pc[p] \in {"clone", "mkdir"} =>
            IF Eligible(p) = {}
            THEN pc[p] = "mkdir"
            ELSE /\ Chosen(p)
                 /\ source[p].path \in Eligible(p)
                 /\ source[p].copied =
                       get_venv_packages(fs[source[p].path]) \cap new_packages[p]
                 /\ \A s \in Eligible(p) :
                       \/ OverlapSize(p, s) < OverlapSize(p, source[p].path)
                       \/ /\ OverlapSize(p, s) = OverlapSize(p, source[p].path)
                          /\ s <= source[p].path

\* C2: a choice between two eligible candidates of the same overlap.
C2_Witness ==
    /\ Chosen(1)
    /\ \E s \in Eligible(1) :
          /\ s # source[1].path
          /\ OverlapSize(1, s) = OverlapSize(1, source[1].path)

\* C7: no entry without a package_index, and never the run's own path, is
\* kept by the loop or chosen as the source, and scanning such entries does
\* not abort the run.
C7_NoIndexNeverSelected ==
    \A p \in Procs :
        /\ pc[p] # "aborted"
        /\ \A i \in DOMAIN overlaps[p] :
              /\ fs[overlaps[p][i].path].index.present
              /\ overlaps[p][i].path # venv_path[p]
        /\ Chosen(p) =>
              /\ fs[source[p].path].index.present
              /\ source[p].path # venv_path[p]

\* C7: a source was chosen from a cache that lists an entry without a
\* package_index, while the run's own path holds an eligible index.
C7_Witness ==
    /\ Chosen(1)
    /\ \E s \in listing : s # venv_path[1] /\ ~fs[s].index.present
    /\ fs[venv_path[1]].index.present
    /\ get_venv_packages(fs[venv_path[1]]) \subseteq new_packages[1]

RECURSIVE SplitBlocks(_, _)
\* the blocks of a log: a block starts at each line that is a path
SplitBlocks(lines, blocks) ==
    IF lines = <<>> THEN blocks
    ELSE IF Head(lines).kind = "path" \/ blocks = <<>>
    THEN SplitBlocks(Tail(lines), Append(blocks, <<Head(lines)>>))
    ELSE SplitBlocks(Tail(lines),
                     [blocks EXCEPT ![Len(blocks)] = Append(@, Head(lines))])

\* C10: after N calls of create_log_entry on one log, the log is N blocks,
\* the blocks the calls wrote, in the order of the calls.
C10_AppendOnly ==
    SplitBlocks(Env(1).log.lines, <<>>) = appended

\* C10: three blocks, the middle one with a parent.
C10_Witness ==
    /\ Len(appended) = 3
    /\ Len(SplitBlocks(Env(1).log.lines, <<>>)) = 3
    /\ \E i \in DOMAIN appended[2] : appended[2][i].kind = "copied_from"

----------------------------------------------------------------------------
\* The runs of Spec

\* run p is inside do_setup_virtualenv and pip has not succeeded
NotInstalled(p) ==
    pc[p] \in {"get_names", "rm_rf", "copy_start", "loop", "read_index", "select",
               "clone", "rm_stamp", "copy_log", "log_clone", "mkdir", "log_fresh",
               "index_open", "index_write", "install1", "install2"}

\* run p took its tree from an earlier environment
Cloned(p) == "clone" \in ops[p] /\ source[p].path # NoPath

\* C3: a run whose first install fails and whose second succeeds goes on to
\* write success-stamp and ends done with the stamp in place; a run whose
\* two installs fail ends aborted with no success-stamp at its path.
C3_RetryOnceThenFatal ==
    \A p \in Procs :
        /\ results[p] = <<"fail", "ok">> =>
              /\ pc[p] \in {"write_stamp", "done"}
              /\ pc[p] = "done" => Env(p).stamp
        /\ results[p] = <<"fail", "fail">> =>
              /\ pc[p] = "aborted"
              /\ ~Env(p).stamp

\* C3: both installs failed in a run that cloned an environment carrying a
\* success-stamp.
C3_Witness ==
    /\ results[1] = <<"fail", "fail">>
    /\ pc[1] = "aborted"
    /\ Cloned(1)
    /\ fs[source[1].path].stamp

\* C4: while a run has not got through its install step, and after it has
\* aborted, there is no success-stamp at its path.
C4_NoPartialMarked ==
    \A p \in Procs :
        (NotInstalled(p) \/ pc[p] = "aborted") => ~Env(p).stamp

\* C5: a run that finds success-stamp at its path ends with its next step,
\* having removed, selected, cloned, logged, indexed and installed nothing;
\* its steps, from its start to its end, leave the cache as it was.
C5_StampShortCircuits ==
    [][\A p \in Procs :
          LET found == pc[p] = "check_stamp" /\ Env(p).stamp
          IN  (pc'[p] # pc[p] /\ (found \/ pc[p] \in {"idle", "done"})) =>
                 /\ UNCHANGED fsvars
                 /\ found => /\ pc'[p] = "done"
                             /\ ops'[p] = {}
                             /\ results'[p] = <<>>]_vars

\* C5: a run has ended on the stamp of an environment built earlier.
C5_Witness ==
    /\ pc[1] = "done"
    /\ ops[1] = {}
    /\ Env(1).stamp
    /\ Env(1).index.present
    /\ Env(1).log.present

\* C6: after virtualenv-clone has failed the run goes on: it makes a new
\* virtualenv, logs it without a parent, writes the index of its own
\* requirements and installs; it aborts only if both installs fail.
C6_CloneFailureFallsBack ==
    \A p \in Procs :
        "clone_failed" \in ops[p] =>
            /\ pc[p] \in {"mkdir", "log_fresh", "index_open", "index_write",
                          "install1", "install2", "write_stamp", "done", "aborted"}
            /\ pc[p] = "aborted" => results[p] = <<"fail", "fail">>
            /\ pc[p] \in {"install1", "install2", "write_stamp", "done"} =>
                  /\ {"mkdir", "log", "index"} \subseteq ops[p]
                  /\ "clone" \notin ops[p]
                  /\ get_venv_packages(Env(p)) = new_packages[p]
                  /\ SplitBlocks(Env(p).log.lines, <<>>) =
                        <<LogEntryText(venv_path[p], NoPath, {}, new_packages[p])>>
            /\ pc[p] = "done" => Env(p).stamp

\* C6: a run whose clone failed has ended with its success-stamp written.
C6_Witness ==
    /\ "clone_failed" \in ops[1]
    /\ pc[1] = "done"
    /\ Env(1).stamp

\* C8: when pip is first run, package_index holds the names of the run's
\* requirements, one per line and nothing else, on both paths.
C8_IndexIsTarget ==
    \A p \in Procs :
        pc[p] = "install1" =>
            /\ get_venv_packages(Env(p)) = new_packages[p]
            /\ Env(p).index = File(IndexText(SortedSeq(new_packages[p])))

\* C8: pip is about to run in a tree cloned from an environment whose
\* package set is not the run's.
C8_Witness ==
    /\ pc[1] = "install1"
    /\ Cloned(1)
    /\ get_venv_packages(fs[source[1].path]) # new_packages[1]

\* C9: the environment chosen as the source carries a success-stamp.
C9_SourceHasStamp ==
    \A p \in Procs : Chosen(p) => fs[source[p].path].stamp
----------------------------------------------------------------------------
\* The text of the files

\* C11: the set read back from a package_index is the set of the names
\* written to it, for every non-empty list of names get_package_names
\* returns, whatever their order and however often a name is listed.
C11_IndexRoundTrip ==
    (read_back.state = "returned" /\ names.list # <<>>) =>
        read_back.set = Range(names.list)

\* C11: a list naming a package twice was written and read back.
C11_Witness ==
    /\ read_back.state = "returned"
    /\ names.list # <<>>
    /\ Len(names.list) > Cardinality(Range(names.list))

\* C12: get_package_names on the names it returned, one a line, returns
\* the same set of names.
C12_CanonicalizeIdempotent ==
    names_again.state # "none" =>
        /\ names_again.state = "returned"
        /\ Range(names_again.list) = Range(names.list)
----------------------------------------------------------------------------
\* A requirements file get_package_names refuses

\* the requirements file of run p has an entry with two '#egg='
Malformed(p) ==
    venv_path[p] # NoPath /\ \E R \in req_of[venv_path[p]] : HasDuplicateEgg(R)

\* C20: a run whose requirements file has an entry with two '#egg=' gets no
\* further than get_package_names: it ends aborted, having removed, cloned,
\* created, logged, indexed, installed and stamped nothing, and there is
\* nothing at its path.
C20_MalformedAbortsEarly ==
    \A p \in Procs :
        Malformed(p) =>
            /\ pc[p] \in {"check_stamp", "get_names", "aborted"}
            /\ ops[p] = {}
            /\ results[p] = <<>>
            /\ Env(p) = NoEnv
            /\ venv_path[p] \notin listing

\* C20: such a run has aborted on a cache that holds a finished environment.
C20_Witness ==
    /\ Malformed(1)
    /\ pc[1] = "aborted"
    /\ \E s \in listing : fs[s].stamp /\ fs[s].index.present
----------------------------------------------------------------------------
\* Runs at the same time

\* success-stamp is at s, and not as the copy virtualenv-clone has just made
\* of the stamp of another environment
Marked(s) ==
    /\ fs[s].stamp
    /\ \A p \in Procs : ~(venv_path[p] = s /\ pc[p] = "rm_stamp")

\* C13: whatever the runs do, the package_index, the log and the
\* success-stamp of an environment that carries its success-stamp stay as
\* they are.
C13_SuccessfulImmutable ==
    [][\A s \in Sha1sums :
          Marked(s) => /\ fs'[s].stamp
                       /\ fs'[s].index = fs[s].index
                       /\ fs'[s].log = fs[s].log]_vars

\* no run is at work on the environment at s
Quiet(s) == \A p \in Procs : venv_path[p] = s => pc[p] \in {"done", "aborted"}

\* C14: once the runs on an environment have ended, it carries a
\* success-stamp only if pip has installed its requirements in the tree that
\* is at its path.
C14_StampOnlyOnInstalledTree ==
    \A s \in Sha1sums : (Quiet(s) /\ fs[s].stamp) => fs[s].installed

\* the names the finished package_index of s lists
FinalPackages(s) == {Range(get_package_names(R)) : R \in req_of[s]}

\* C15: the package_index a run is about to read from another environment
\* lists, if it is there, the names of that environment's own requirements:
\* not fewer, and not those of the environment it was cloned from.
C15_ReaderSeesFinalIndex ==
    \A p \in Procs :
        (pc[p] = "read_index" /\ fs[curr_venv_path[p]].index.present) =>
            get_venv_packages(fs[curr_venv_path[p]]) \in FinalPackages(curr_venv_path[p])

\* C16: a run that comes to read a package_index which has gone since it
\* tested for it leaves that candidate out and goes on with the next one.
C16_VanishedIndexIsSkipped ==
    [][\A p \in Procs :
          (/\ pc[p] = "read_index"
           /\ ~fs[curr_venv_path[p]].index.present
           /\ pc'[p] # pc[p]) =>
              /\ pc'[p] = "loop"
              /\ overlaps'[p] = overlaps[p]]_vars
----------------------------------------------------------------------------
\* The log of a run, and the end of a run

\* the block the run of p has written to its log
OwnBlock(p) ==
    LET blocks == SplitBlocks(Env(p).log.lines, <<>>) IN blocks[Len(blocks)]

C18_BlockNamesParent ==
    \A p \in Procs :
        "log" \in ops[p] =>
            (Cloned(p) <=>
                \E i \in DOMAIN OwnBlock(p) : OwnBlock(p)[i] = CopiedFrom(source[p].path))

\* a run of p is under way
Running(p) == pc[p] \notin {"idle", "done", "aborted"}

\* C19: a run that has started comes to its end, done or aborted; pip is
\* run at most twice in it, and the second time only after the first failed.
C19_EndsWithinTwoInstalls ==
    /\ [](\A p \in Procs :
            /\ Len(results[p]) <= 2
            /\ Len(results[p]) = 2 => results[p][1] = "fail"
            /\ pc[p] \in {"write_stamp", "done"} =>
                  results[p] \in {<<>>, <<"ok">>, <<"fail", "ok">>})
    /\ \A p \in Procs : Running(p) ~> (pc[p] \in {"done", "aborted"})

\* C19: a run has ended after two failed installs.
C19_Witness ==
    /\ pc[1] = "aborted"
    /\ results[1] = <<"fail", "fail">>
====
